---- MODULE Spec2Model ----
(***************************************************************************)
(* Model of src/App.tsx: the state of the App component, the prompt that   *)
(* generateNewPrompt builds, and the two asynchronous flows (style         *)
(* analysis, image generation) with their calls in flight.                 *)
(*                                                                         *)
(* One action is one event of the UI event loop (an upload completing, an  *)
(* option change, a prompt edit, a button click, a promise settling)       *)
(* together with the renders and effects it causes, so every state is a    *)
(* state "after pending effects have run".                                 *)
(***************************************************************************)
EXTENDS Integers, Sequences, FiniteSets, TLC

(***************************************************************************)
(* Nullable values (T | null): null is <<>>, a value v is <<v>>.           *)
(***************************************************************************)
Null == <<>>

Some(v) == <<v>>

Val(o) == o[1]

(***************************************************************************)
(* Bounds of the model.                                                    *)
(***************************************************************************)
\* analyzeStyleImage calls that may be unresolved at the same time
MaxAnalyses == 2

\* generateImage calls that may be unresolved at the same time
MaxGenerations == 2

(***************************************************************************)
(* Domains of the inputs.                                                  *)
(***************************************************************************)
LightingStyle ==
  {"Natural Light", "Studio Light", "Golden Hour", "Blue Hour", "Cinematic", "Dramatic"}

CameraPerspective ==
  {"Front View", "Top View", "Side View", "45° Angle", "Close-up", "Macro Shot"}

\* the preset combinations the user switches between in a session of the App
SessionOptions ==
  {[lightingStyle |-> "Natural Light", cameraPerspective |-> "Front View"],
   [lightingStyle |-> "Golden Hour", cameraPerspective |-> "Close-up"]}

\* uploaded product photos and style references (ImageFile objects)
ProductImages == {"product-1.png", "product-2.png"}

StyleImages == {"style-A.png", "style-B.png"}

\* images generateImage may return
ResultImages == {"generated-1.png"}

\* descriptions analyzeStyleImage may return
Descriptions == {"minimalist pastel", ""}

\* texts the user may leave in the prompt editor
EditTexts == {"", "A watercolor painting of the product."}

\* values a collaborator may throw: an Error with a message, or something else
Thrown == {[isError |-> TRUE, message |-> "Network request failed"],
           [isError |-> FALSE, message |-> ""]}

(***************************************************************************)
(* The static tables.                                                      *)
(***************************************************************************)
LIGHTING_DESCRIPTIONS ==
  "Natural Light" :> "Bathed in soft, diffused natural light, creating a clean, airy, and authentic feel. Emphasize realistic highlights and gentle shadows."
  @@ "Studio Light" :> "Lit with a professional multi-point studio setup. Use a key light, fill light, and rim light to sculpt the product's form, create depth, and produce crisp, clean highlights. The background should be seamless and evenly lit."
  @@ "Golden Hour" :> "Illuminated by the warm, soft, and directional light of the golden hour (just after sunrise or before sunset). The scene should have long, soft shadows and a warm, inviting color palette."
  @@ "Blue Hour" :> "Captured during the blue hour (the period of twilight in the morning or evening). The light should be cool, soft, and diffused, creating a serene and moody atmosphere with a predominantly blue color cast."
  @@ "Cinematic" :> "Use dramatic, moody lighting with high contrast, similar to a film still. Emphasize texture and shape with creative use of light and shadow. Consider using color gels for a stylized effect."
  @@ "Dramatic" :> "Characterized by high contrast and strong, hard light (chiaroscuro). Use deep shadows to create a sense of mystery, power, and intensity, focusing attention on specific parts of the product."

CAMERA_PERSPECTIVE_DESCRIPTIONS ==
  "Front View" :> "A direct, head-on shot from the front, perfectly centered. This perspective should clearly display the product's primary face and branding in a straightforward manner."
  @@ "Top View" :> "A bird's-eye view, shot directly from above (a flat lay or knolling perspective). This is ideal for showcasing the product's shape, layout, or components on a flat surface."
  @@ "Side View" :> "A profile shot taken directly from the side. This perspective is used to highlight the product's silhouette, thickness, and details not visible from the front."
  @@ "45° Angle" :> "An isometric or three-quarter view, shot from a 45-degree angle from the front and side. This popular perspective provides a sense of depth and dimension, showing multiple sides of the product at once."
  @@ "Close-up" :> "A tight shot focusing on a specific, interesting detail of the product. This should highlight its material, texture, craftsmanship, or a key feature with a shallow depth of field."
  @@ "Macro Shot" :> "An extreme close-up view that reveals intricate details not visible to the naked eye. This perspective should magnify textures, patterns, and minuscule components, emphasizing the product's quality and precision."

(***************************************************************************)
(* The pieces of the template literal of generateNewPrompt.                *)
(***************************************************************************)
TemplateHead ==
  "Generate a high-resolution, professional product photograph of the subject in the provided image.\n\nKey requirements:\n- **Lighting**: "

TemplatePerspective == "\n- **Camera Perspective**: "

TemplateTail ==
  "\n- **Background**: The background should be clean, non-distracting, and complementary to the product. A subtle, high-end studio setting is preferred, unless the lighting or style suggests otherwise.\n- **Overall Mood**: The image should feel premium, clean, and aspirational. Focus on photorealism and fine detail."

StyleClauseLabel == "\n\n- **Style Reference**: "

PendingClause ==
  "A style reference image is being analyzed. Please wait for the analysis to complete for specific style instructions."

DescribedPrefix ==
  "Strictly adhere to the aesthetic of the provided style reference image, which is described as: \""

DescribedSuffix ==
  "\". The goal is to make the product look as if it belongs in the same visual world, matching the mood, color palette, and textures."

FallbackClause ==
  "Strictly adhere to the aesthetic, color palette, texture, and overall mood of the provided style reference image. The goal is to make the product look as if it belongs in the same visual world as the style reference."

ValidationText == "Please upload a product image and ensure the prompt is not empty."

AnalysisFallbackText == "Could not analyze the style image."

GenerationFallbackText == "An unknown error occurred during image generation."

(***************************************************************************)
(* JavaScript truthiness of a string | null (null and '' are falsy).       *)
(***************************************************************************)
Truthy(o) == o # Null /\ Val(o) # ""

(***************************************************************************)
(* generateNewPrompt: the string the prompt effect passes to setPrompt.    *)
(***************************************************************************)
StyleClause(analyzing, description) ==
  IF analyzing THEN StyleClauseLabel \o PendingClause
  ELSE IF Truthy(description)
       THEN StyleClauseLabel \o DescribedPrefix \o Val(description) \o DescribedSuffix
       ELSE StyleClauseLabel \o FallbackClause

\* variant: the template reads the presets of the first render (a stale closure)
BasePrompt_initialPresets(opts) ==
  TemplateHead \o LIGHTING_DESCRIPTIONS["Natural Light"]
  \o TemplatePerspective \o CAMERA_PERSPECTIVE_DESCRIPTIONS["Front View"]
  \o TemplateTail

BasePrompt(opts) ==
  TemplateHead \o LIGHTING_DESCRIPTIONS[opts.lightingStyle]
  \o TemplatePerspective \o CAMERA_PERSPECTIVE_DESCRIPTIONS[opts.cameraPerspective]
  \o TemplateTail

\* variant: the guard tests the style image where the code tests the product image
generateNewPrompt_guardsOnStyle(product, opts, style, analyzing, description) ==
  IF style = Null THEN ""
  ELSE BasePrompt(opts) \o StyleClause(analyzing, description)

generateNewPrompt(product, opts, style, analyzing, description) ==
  IF product = Null THEN ""
  ELSE IF style # Null
       THEN BasePrompt(opts) \o StyleClause(analyzing, description)
       ELSE BasePrompt(opts)

(***************************************************************************)
(* The message of a caught value.                                          *)
(***************************************************************************)
ErrorMessage(err, fallback) == IF err.isError THEN err.message ELSE fallback

(***************************************************************************)
(* State.                                                                  *)
(***************************************************************************)
VARIABLES
  productImage,      \* ImageFile | null
  styleImage,        \* ImageFile | null
  generatedImage,    \* ImageFile | null
  styleDescription,  \* string | null
  isAnalyzingStyle,  \* boolean
  options,           \* CustomizationOptions
  prompt,            \* string
  isLoading,         \* boolean
  error,             \* string | null
  analyses,          \* analyzeStyleImage calls not yet settled, oldest first
  generations,       \* generateImage calls not yet settled, oldest first
  edited,            \* history: the user edited the prompt since it was last computed
  styleAnalysis,     \* history: outcome of the analysis of the current style image
  last               \* history: the step that led to this state

vars == <<productImage, styleImage, generatedImage, styleDescription,
          isAnalyzingStyle, options, prompt, isLoading, error,
          analyses, generations, edited, styleAnalysis, last>>

InitialOptions == [lightingStyle |-> "Natural Light", cameraPerspective |-> "Front View"]

Init ==
  /\ productImage = Null
  /\ styleImage = Null
  /\ generatedImage = Null
  /\ styleDescription = Null
  /\ isAnalyzingStyle = FALSE
  /\ options = InitialOptions
  /\ prompt = ""
  /\ isLoading = FALSE
  /\ error = Null
  /\ analyses = <<>>
  /\ generations = <<>>
  /\ edited = FALSE
  /\ styleAnalysis = [state |-> "none"]
  /\ last = [op |-> "mount"]

(***************************************************************************)
(* Helpers on the lists of calls in flight.                                *)
(***************************************************************************)
RemoveAt(seq, i) == SubSeq(seq, 1, i - 1) \o SubSeq(seq, i + 1, Len(seq))

\* history only: an upload makes every earlier analysis one of a replaced image
Superseded(seq) == [k \in 1..Len(seq) |-> [seq[k] EXCEPT !.current = FALSE]]

(***************************************************************************)
(* The prompt effect (useEffect with generateNewPrompt).  It runs after a  *)
(* render in which one of its dependencies [options, productImage,         *)
(* styleImage, styleDescription, isAnalyzingStyle] is not Object.is-equal  *)
(* to its previous value; its last run sees the values of the next state.  *)
(***************************************************************************)
\* variant: the effect misses its dependencies and never runs again
PromptEffect_neverRuns(depsChanged) == UNCHANGED <<prompt, edited>>

\* variant: the effect has no dependency array and runs after every render
PromptEffect_runsAlways(depsChanged) ==
  /\ prompt' = generateNewPrompt(productImage', options', styleImage',
                                 isAnalyzingStyle', styleDescription')
  /\ edited' = FALSE

PromptEffect(depsChanged) ==
  IF depsChanged
  THEN /\ prompt' = generateNewPrompt(productImage', options', styleImage',
                                      isAnalyzingStyle', styleDescription')
       /\ edited' = FALSE
  ELSE UNCHANGED <<prompt, edited>>

(***************************************************************************)
(* handleFileChange(setProductImage): the user picks another file and the  *)
(* reader's onloadend stores a new ImageFile object.                       *)
(***************************************************************************)
UploadProduct(p) ==
  /\ Some(p) # productImage
  /\ productImage' = Some(p)
  /\ UNCHANGED <<styleImage, generatedImage, styleDescription, isAnalyzingStyle,
                 options, isLoading, error, analyses, generations, styleAnalysis>>
  /\ PromptEffect(TRUE)
  /\ last' = [op |-> "uploadProduct"]

(***************************************************************************)
(* handleFileChange(setStyleImage), then the style effect: it starts       *)
(* getStyleDescription, which runs up to its await.                        *)
(***************************************************************************)
StartedAnalysis(s) == [image |-> s, current |-> TRUE]

\* variant: a new style image first clears the stored description
UploadStyle_resetsDescription(s) ==
  /\ Some(s) # styleImage
  /\ Len(analyses) < MaxAnalyses
  /\ styleImage' = Some(s)
  /\ isAnalyzingStyle' = TRUE
  /\ error' = Null
  /\ styleDescription' = Null
  /\ analyses' = Append(Superseded(analyses), StartedAnalysis(s))
  /\ styleAnalysis' = [state |-> "pending"]
  /\ UNCHANGED <<productImage, generatedImage, options, isLoading, generations>>
  /\ PromptEffect(TRUE)
  /\ last' = [op |-> "uploadStyle"]

UploadStyle(s) ==
  /\ Some(s) # styleImage
  /\ Len(analyses) < MaxAnalyses
  /\ styleImage' = Some(s)
  /\ isAnalyzingStyle' = TRUE
  /\ error' = Null
  /\ analyses' = Append(Superseded(analyses), StartedAnalysis(s))
  /\ styleAnalysis' = [state |-> "pending"]
  /\ UNCHANGED <<productImage, generatedImage, styleDescription, options,
                 isLoading, generations>>
  /\ PromptEffect(TRUE)
  /\ last' = [op |-> "uploadStyle"]

(***************************************************************************)
(* getStyleDescription after its await: the call analyses[i] settles.      *)
(***************************************************************************)
\* variant: the result of a call for a replaced style image is dropped
AnalysisResolves_ignoresStale(i, d) ==
  /\ styleDescription' = IF analyses[i].current THEN Some(d) ELSE styleDescription
  /\ isAnalyzingStyle' = IF analyses[i].current THEN FALSE ELSE isAnalyzingStyle
  /\ analyses' = RemoveAt(analyses, i)
  /\ styleAnalysis' = IF analyses[i].current
                      THEN [state |-> "described", description |-> d]
                      ELSE styleAnalysis
  /\ UNCHANGED <<productImage, styleImage, generatedImage, options, isLoading,
                 error, generations>>
  /\ PromptEffect(styleDescription' # styleDescription
                  \/ isAnalyzingStyle' # isAnalyzingStyle)
  /\ last' = [op |-> "analysisResolved", description |-> d, call |-> analyses[i]]

AnalysisResolves(i, d) ==
  /\ styleDescription' = Some(d)
  /\ isAnalyzingStyle' = FALSE
  /\ analyses' = RemoveAt(analyses, i)
  /\ styleAnalysis' = IF analyses[i].current
                      THEN [state |-> "described", description |-> d]
                      ELSE styleAnalysis
  /\ UNCHANGED <<productImage, styleImage, generatedImage, options, isLoading,
                 error, generations>>
  /\ PromptEffect(styleDescription' # styleDescription
                  \/ isAnalyzingStyle' # isAnalyzingStyle)
  /\ last' = [op |-> "analysisResolved", description |-> d, call |-> analyses[i]]

\* variant: the finally block also clears the flag of the other flow
AnalysisRejects_clearsLoading(i, err) ==
  /\ error' = Some(ErrorMessage(err, AnalysisFallbackText))
  /\ styleDescription' = Null
  /\ isAnalyzingStyle' = FALSE
  /\ isLoading' = FALSE
  /\ analyses' = RemoveAt(analyses, i)
  /\ styleAnalysis' = IF analyses[i].current THEN [state |-> "failed"]
                      ELSE styleAnalysis
  /\ UNCHANGED <<productImage, styleImage, generatedImage, options, generations>>
  /\ PromptEffect(styleDescription' # styleDescription
                  \/ isAnalyzingStyle' # isAnalyzingStyle)
  /\ last' = [op |-> "analysisRejected", thrown |-> err, call |-> analyses[i]]

AnalysisRejects(i, err) ==
  /\ error' = Some(ErrorMessage(err, AnalysisFallbackText))
  /\ styleDescription' = Null
  /\ isAnalyzingStyle' = FALSE
  /\ analyses' = RemoveAt(analyses, i)
  /\ styleAnalysis' = IF analyses[i].current THEN [state |-> "failed"]
                      ELSE styleAnalysis
  /\ UNCHANGED <<productImage, styleImage, generatedImage, options, isLoading,
                 generations>>
  /\ PromptEffect(styleDescription' # styleDescription
                  \/ isAnalyzingStyle' # isAnalyzingStyle)
  /\ last' = [op |-> "analysisRejected", thrown |-> err, call |-> analyses[i]]

(***************************************************************************)
(* CustomizationPanel calls setOptions with the newly selected presets.    *)
(***************************************************************************)
ChangeOptions(selected) ==
  /\ selected # options
  /\ options' = selected
  /\ UNCHANGED <<productImage, styleImage, generatedImage, styleDescription,
                 isAnalyzingStyle, isLoading, error, analyses, generations,
                 styleAnalysis>>
  /\ PromptEffect(TRUE)
  /\ last' = [op |-> "changeOptions"]

(***************************************************************************)
(* PromptEditor calls setPrompt with the text the user left in the editor. *)
(***************************************************************************)
EditPrompt(text) ==
  /\ prompt' = text
  /\ edited' = TRUE
  /\ UNCHANGED <<productImage, styleImage, generatedImage, styleDescription,
                 isAnalyzingStyle, options, isLoading, error, analyses,
                 generations, styleAnalysis>>
  /\ last' = [op |-> "editPrompt"]

(***************************************************************************)
(* The generate button and handleGenerate up to its await.                 *)
(***************************************************************************)
\* variant: the button does not look at isLoading
GenerateDisabled_ignoresLoading == productImage = Null \/ isAnalyzingStyle

GenerateDisabled == isLoading \/ productImage = Null \/ isAnalyzingStyle

\* variant: the validation forgets the empty prompt
ValidationFails_productOnly(product, text) == product = Null

ValidationFails(product, text) == product = Null \/ text = ""

\* variant: the call leaves the style image out
GenerateArguments_withoutStyle(product, text, style) ==
  [product |-> product, prompt |-> text, style |-> Null]

GenerateArguments(product, text, style) ==
  [product |-> product, prompt |-> text, style |-> style]

\* variant: a new run keeps the previous result (no setGeneratedImage(null))
ClickGenerate_keepsResult ==
  /\ ~GenerateDisabled
  /\ Len(generations) < MaxGenerations
  /\ IF ValidationFails(productImage, prompt)
     THEN /\ error' = Some(ValidationText)
          /\ UNCHANGED <<isLoading, generatedImage, generations>>
          /\ last' = [op |-> "generateRefused"]
     ELSE /\ isLoading' = TRUE
          /\ error' = Null
          /\ UNCHANGED generatedImage
          /\ generations' = Append(generations,
                                   GenerateArguments(productImage, prompt, styleImage))
          /\ last' = [op |-> "generateStarted"]
  /\ UNCHANGED <<productImage, styleImage, styleDescription, isAnalyzingStyle,
                 options, analyses, styleAnalysis>>
  /\ PromptEffect(FALSE)

ClickGenerate ==
  /\ ~GenerateDisabled
  /\ Len(generations) < MaxGenerations
  /\ IF ValidationFails(productImage, prompt)
     THEN /\ error' = Some(ValidationText)
          /\ UNCHANGED <<isLoading, generatedImage, generations>>
          /\ last' = [op |-> "generateRefused"]
     ELSE /\ isLoading' = TRUE
          /\ error' = Null
          /\ generatedImage' = Null
          /\ generations' = Append(generations,
                                   GenerateArguments(productImage, prompt, styleImage))
          /\ last' = [op |-> "generateStarted"]
  /\ UNCHANGED <<productImage, styleImage, styleDescription, isAnalyzingStyle,
                 options, analyses, styleAnalysis>>
  /\ PromptEffect(FALSE)

(***************************************************************************)
(* handleGenerate after its await: the call generations[i] settles.        *)
(***************************************************************************)
GenerationResolves(i, result) ==
  /\ generatedImage' = Some(result)
  /\ isLoading' = FALSE
  /\ generations' = RemoveAt(generations, i)
  /\ UNCHANGED <<productImage, styleImage, styleDescription, isAnalyzingStyle,
                 options, error, analyses, styleAnalysis>>
  /\ PromptEffect(FALSE)
  /\ last' = [op |-> "generationResolved", result |-> result]

\* variant: the failure path has no finally and leaves isLoading set
GenerationRejects_keepsLoading(i, err) ==
  /\ error' = Some(ErrorMessage(err, GenerationFallbackText))
  /\ generations' = RemoveAt(generations, i)
  /\ UNCHANGED <<productImage, styleImage, generatedImage, styleDescription,
                 isAnalyzingStyle, options, analyses, styleAnalysis, isLoading>>
  /\ PromptEffect(FALSE)
  /\ last' = [op |-> "generationRejected", thrown |-> err]

GenerationRejects(i, err) ==
  /\ error' = Some(ErrorMessage(err, GenerationFallbackText))
  /\ isLoading' = FALSE
  /\ generations' = RemoveAt(generations, i)
  /\ UNCHANGED <<productImage, styleImage, generatedImage, styleDescription,
                 isAnalyzingStyle, options, analyses, styleAnalysis>>
  /\ PromptEffect(FALSE)
  /\ last' = [op |-> "generationRejected", thrown |-> err]

Next ==
  \/ \E p \in ProductImages : UploadProduct(p)
  \/ \E s \in StyleImages : UploadStyle(s)
  \/ \E i \in 1..Len(analyses), d \in Descriptions : AnalysisResolves(i, d)
  \/ \E i \in 1..Len(analyses), err \in Thrown : AnalysisRejects(i, err)
  \/ \E selected \in SessionOptions : ChangeOptions(selected)
  \/ \E text \in EditTexts : EditPrompt(text)
  \/ ClickGenerate
  \/ \E i \in 1..Len(generations), result \in ResultImages : GenerationResolves(i, result)
  \/ \E i \in 1..Len(generations), err \in Thrown : GenerationRejects(i, err)

Spec == Init /\ [][Next]_vars

(***************************************************************************)
(* generateNewPrompt on its own: every combination of its inputs, then one *)
(* run of the prompt effect.                                               *)
(***************************************************************************)
AllOptions ==
  [lightingStyle : LightingStyle, cameraPerspective : CameraPerspective]

Optional(S) == {Null} \cup {Some(x) : x \in S}

PromptInit ==
  /\ productImage \in Optional({"product-1.png"})
  /\ styleImage \in Optional({"style-A.png"})
  /\ styleDescription \in Optional(Descriptions)
  /\ isAnalyzingStyle \in BOOLEAN
  /\ options \in AllOptions
  /\ prompt = ""
  /\ generatedImage = Null
  /\ isLoading = FALSE
  /\ error = Null
  /\ analyses = <<>>
  /\ generations = <<>>
  /\ edited = FALSE
  /\ styleAnalysis = [state |-> "none"]
  /\ last = [op |-> "inputs"]

ComputePrompt ==
  /\ last.op = "inputs"
  /\ UNCHANGED <<productImage, styleImage, generatedImage, styleDescription,
                 isAnalyzingStyle, options, isLoading, error, analyses,
                 generations, styleAnalysis>>
  /\ PromptEffect(TRUE)
  /\ last' = [op |-> "computePrompt"]

PromptNext == ComputePrompt

PromptSpec == PromptInit /\ [][PromptNext]_vars

(***************************************************************************)
(* Substring test on strings.                                              *)
(***************************************************************************)
Min(a, b) == IF a < b THEN a ELSE b

Contains(s, t) ==
  \/ t = ""
  \/ \E i \in 1..(Len(s) - Len(t) + 1) :
       /\ SubSeq(s, i, i + Min(4, Len(t)) - 1) = SubSeq(t, 1, Min(4, Len(t)))
       /\ SubSeq(s, i, i + Len(t) - 1) = t

(***************************************************************************)
(* Properties.                                                             *)
(***************************************************************************)

\* C1 (as stated): in every reachable state the prompt is the empty string
\* if and only if no product image is present.
C1_PromptEmptyIffNoProduct == (prompt = "") <=> (productImage = Null)

\* C1 (amended): in every reachable state in which the user has not edited
\* the prompt since it was last computed, the prompt is the empty string if
\* and only if no product image is present.
C1_UneditedPromptEmptyIffNoProduct ==
  ~edited => ((prompt = "") <=> (productImage = Null))

C1_Witness ==
  /\ ~edited
  /\ productImage # Null
  /\ prompt # ""
  /\ last.op = "generationRejected"

\* C2: for every combination of its inputs, the prompt computed by
\* generateNewPrompt is the empty string if and only if the product image is
\* absent.
C2_BuilderEmptyIffNoProduct ==
  last.op = "computePrompt" => ((prompt = "") <=> (productImage = Null))

C2_Witness ==
  /\ last.op = "computePrompt"
  /\ productImage = Null
  /\ styleImage # Null
  /\ isAnalyzingStyle
  /\ Truthy(styleDescription)
  /\ prompt = ""

\* C3: a handleGenerate step taken with no product image or with an empty
\* prompt sets error to the validation text, starts no generateImage call and
\* leaves isLoading and generatedImage unchanged.
C3_ValidationFailure ==
  [][(/\ last'.op \in {"generateRefused", "generateStarted"}
      /\ (productImage = Null \/ prompt = ""))
     => /\ error' = Some(ValidationText)
        /\ generations' = generations
        /\ isLoading' = isLoading
        /\ generatedImage' = generatedImage]_vars

C3_Witness ==
  /\ last.op = "generateRefused"
  /\ productImage # Null
  /\ prompt = ""
  /\ error = Some(ValidationText)
  /\ generatedImage # Null

\* C4: a handleGenerate step taken with a product image and a non-empty
\* prompt adds exactly one generateImage call, whose arguments are the product
\* image, the prompt text and the style image of that moment; a failing call
\* is followed by no new call, and calls are only ever added by such a step.
C4_GenerateCallsOnce ==
  [][/\ (/\ last'.op \in {"generateRefused", "generateStarted"}
         /\ productImage # Null
         /\ prompt # "")
        => generations' = Append(generations, [product |-> productImage,
                                               prompt |-> prompt,
                                               style |-> styleImage])
     /\ last'.op = "generationRejected" => Len(generations') = Len(generations) - 1
     /\ Len(generations') > Len(generations) => last'.op = "generateStarted"]_vars

C4_Witness ==
  /\ last.op = "generateStarted"
  /\ edited
  /\ styleImage # Null
  /\ generations = <<[product |-> productImage, prompt |-> prompt, style |-> styleImage]>>

\* C5 (as stated): with a product image and a style image present and the
\* prompt not edited since it was computed, the prompt has the "being analyzed"
\* clause while the analysis of the current style image is pending, quotes the
\* description once that analysis resolved with one, and has the generic
\* clause once that analysis failed.
C5_StyleClauseFollowsAnalysis ==
  (productImage # Null /\ styleImage # Null /\ ~edited)
  => /\ styleAnalysis.state = "pending" => Contains(prompt, PendingClause)
     /\ styleAnalysis.state = "described"
          => Contains(prompt, styleAnalysis.description)
     /\ styleAnalysis.state = "failed" => Contains(prompt, FallbackClause)

\* the prompt of the scenario "Golden Hour", "Close-up", no style image
GoldenHourCloseUpPrompt ==
  "Generate a high-resolution, professional product photograph of the subject in the provided image.\n\nKey requirements:\n- **Lighting**: Illuminated by the warm, soft, and directional light of the golden hour (just after sunrise or before sunset). The scene should have long, soft shadows and a warm, inviting color palette.\n- **Camera Perspective**: A tight shot focusing on a specific, interesting detail of the product. This should highlight its material, texture, craftsmanship, or a key feature with a shallow depth of field.\n- **Background**: The background should be clean, non-distracting, and complementary to the product. A subtle, high-end studio setting is preferred, unless the lighting or style suggests otherwise.\n- **Overall Mood**: The image should feel premium, clean, and aspirational. Focus on photorealism and fine detail."

\* C6: with a product image present the computed prompt contains the canned
\* sentence of the selected lighting style and of the selected perspective and
\* of no other value; with no style image it is the fixed template with those
\* two sentences and no Style Reference clause.
C6_CannedSentences ==
  (last.op = "computePrompt" /\ productImage # Null)
  => /\ \A l \in LightingStyle :
          Contains(prompt, LIGHTING_DESCRIPTIONS[l]) <=> (l = options.lightingStyle)
     /\ \A c \in CameraPerspective :
          Contains(prompt, CAMERA_PERSPECTIVE_DESCRIPTIONS[c])
            <=> (c = options.cameraPerspective)
     /\ styleImage = Null
          => /\ prompt = TemplateHead
                         \o LIGHTING_DESCRIPTIONS[options.lightingStyle]
                         \o TemplatePerspective
                         \o CAMERA_PERSPECTIVE_DESCRIPTIONS[options.cameraPerspective]
                         \o TemplateTail
             /\ ~Contains(prompt, "Style Reference")
     /\ (/\ styleImage = Null
         /\ options = [lightingStyle |-> "Golden Hour", cameraPerspective |-> "Close-up"])
          => prompt = GoldenHourCloseUpPrompt

C6_Witness ==
  /\ last.op = "computePrompt"
  /\ productImage # Null
  /\ styleImage = Null
  /\ options = [lightingStyle |-> "Golden Hour", cameraPerspective |-> "Close-up"]
  /\ Contains(prompt, LIGHTING_DESCRIPTIONS["Golden Hour"])
  /\ Contains(prompt, CAMERA_PERSPECTIVE_DESCRIPTIONS["Close-up"])

\* C7: a generation run that passes validation sets error and generatedImage
\* to null; when its call resolves generatedImage becomes the returned image;
\* when its call rejects error becomes the failure message and generatedImage
\* is and stays null.
C7_GenerationRun ==
  [][/\ last'.op = "generateStarted" => (error' = Null /\ generatedImage' = Null)
     /\ last'.op = "generationResolved" => generatedImage' = Some(last'.result)
     /\ last'.op = "generationRejected"
          => /\ error' = Some(IF last'.thrown.isError THEN last'.thrown.message
                              ELSE "An unknown error occurred during image generation.")
             /\ generatedImage = Null
             /\ generatedImage' = Null]_vars

C7_Witness ==
  /\ last.op = "generationRejected"
  /\ last.thrown.isError
  /\ error = Some("Network request failed")
  /\ generatedImage = Null
  /\ ~isLoading

\* C8 (as stated): every change of the style image starts an analysis; when
\* the analysis of the current style image resolves the stored description is
\* its result, and when it rejects the stored description is null and error is
\* not null; after that failure the description stays null as long as no
\* later analysis has been started (the calls still in flight are older ones).
C8_AnalysisOutcomeStored ==
  [][/\ last'.op = "uploadStyle"
          => /\ Len(analyses') = Len(analyses) + 1
             /\ analyses'[Len(analyses')].image = Val(styleImage')
     /\ (last'.op = "analysisResolved" /\ styleAnalysis.state = "pending"
         /\ styleAnalysis'.state = "described")
          => styleDescription' = Some(last'.description)
     /\ (last'.op = "analysisRejected" /\ styleAnalysis.state = "pending"
         /\ styleAnalysis'.state = "failed")
          => (styleDescription' = Null /\ error' # Null)
     /\ styleAnalysis.state = "failed" => styleDescription' = Null]_vars

\* C9 (as stated): the generate button is disabled whenever an
\* analyzeStyleImage call is in flight, or a generateImage call is in flight,
\* or no product image exists.
C9_ButtonDisabledWhileInFlight ==
  (analyses # <<>> \/ generations # <<>> \/ productImage = Null)
  => (isLoading \/ productImage = Null \/ isAnalyzingStyle)

\* C10 (as stated): at most one analyzeStyleImage call and at most one
\* generateImage call is in flight.
C10_OneCallOfEachKind == Len(analyses) <= 1 /\ Len(generations) <= 1

\* C10 (amended): at most one generateImage call is in flight, and isLoading
\* is true exactly while it is.
C10_OneGenerationInFlight ==
  /\ Len(generations) <= 1
  /\ isLoading <=> (generations # <<>>)

C10_Witness ==
  /\ Len(generations) = 1
  /\ Len(analyses) = 2
  /\ last.op = "uploadStyle"

\* C11: stale analyses are not cancelled: when the call for a replaced style
\* image resolves, its result is stored as the style description and the
\* style image stays the newer one; so the state "style image B, description
\* the result for A, no call in flight" is reached (C11_Witness).
C11_StaleResultStored ==
  [][(last'.op = "analysisResolved" /\ ~last'.call.current)
     => /\ styleDescription' = Some(last'.description)
        /\ styleImage' = styleImage]_vars

C11_Witness ==
  /\ last.op = "analysisResolved"
  /\ last.call = [image |-> "style-A.png", current |-> FALSE]
  /\ styleImage = Some("style-B.png")
  /\ styleAnalysis = [state |-> "described", description |-> ""]
  /\ styleDescription = Some("minimalist pastel")
  /\ analyses = <<>>
  /\ generations = <<>>

(***************************************************************************)
(* The App when every collaborator call eventually resolves or rejects.    *)
(* The same actions as Next; the uploaded product, the returned            *)
(* description and the thrown value are each one fixed value, which no     *)
(* flag of either flow depends on.                                         *)
(***************************************************************************)
AnalysisSettles ==
  \/ \E i \in 1..Len(analyses) : AnalysisResolves(i, "minimalist pastel")
  \/ \E i \in 1..Len(analyses) :
       AnalysisRejects(i, [isError |-> TRUE, message |-> "Network request failed"])

GenerationSettles ==
  \/ \E i \in 1..Len(generations), result \in ResultImages : GenerationResolves(i, result)
  \/ \E i \in 1..Len(generations) :
       GenerationRejects(i, [isError |-> TRUE, message |-> "Network request failed"])

FairNext ==
  \/ UploadProduct("product-1.png")
  \/ \E s \in StyleImages : UploadStyle(s)
  \/ AnalysisSettles
  \/ \E selected \in SessionOptions : ChangeOptions(selected)
  \/ \E text \in EditTexts : EditPrompt(text)
  \/ ClickGenerate
  \/ GenerationSettles

FairSpec ==
  Init /\ [][FairNext]_vars /\ WF_vars(AnalysisSettles) /\ WF_vars(GenerationSettles)

\* C12: when every collaborator call eventually settles, isLoading = true
\* leads to isLoading = false and isAnalyzingStyle = true leads to
\* isAnalyzingStyle = false; and whenever no call is in flight and a product
\* image is present (in particular after a collaborator failure) the generate
\* button is enabled.
C12_FlowsEndAndAllowRetry ==
  /\ isLoading ~> ~isLoading
  /\ isAnalyzingStyle ~> ~isAnalyzingStyle
  /\ []((analyses = <<>> /\ generations = <<>> /\ productImage # Null)
        => ~(isLoading \/ productImage = Null \/ isAnalyzingStyle))

C12_Witness ==
  /\ last.op = "generationRejected"
  /\ analyses = <<>>
  /\ generations = <<>>
  /\ productImage # Null
  /\ error # Null
  /\ ~isLoading
  /\ ~isAnalyzingStyle

\* C13 (as stated): the stored style description is null when no style image
\* is set, and it is null from the moment a style image is set until an
\* analysis completes.
C13_DescriptionNullUntilAnalysed ==
  [][/\ styleImage' = Null => styleDescription' = Null
     /\ last'.op = "uploadStyle" => styleDescription' = Null
     /\ styleDescription' # styleDescription
          => last'.op \in {"analysisResolved", "analysisRejected"}]_vars

\* C13 (amended): the stored style description is null when no style image
\* is set, and it changes only when an analysis completes: setting a style
\* image leaves it as it was (null for the first style image, the earlier
\* description when a style image is replaced).
C13_DescriptionChangesOnCompletion ==
  [][/\ styleImage' = Null => styleDescription' = Null
     /\ last'.op = "uploadStyle" => styleDescription' = styleDescription
     /\ styleDescription' # styleDescription
          => last'.op \in {"analysisResolved", "analysisRejected"}]_vars

C13_Witness ==
  /\ last.op = "uploadStyle"
  /\ styleAnalysis.state = "pending"
  /\ Len(analyses) = 1
  /\ styleDescription = Some("minimalist pastel")

\* the steps of the two flows
AnalysisFlowSteps == {"uploadStyle", "analysisResolved", "analysisRejected"}

GenerationFlowSteps ==
  {"generateRefused", "generateStarted", "generationResolved", "generationRejected"}

\* C14 (as stated): no step of the style-analysis flow changes isLoading,
\* generatedImage or an error message produced by the generation flow, and no
\* step of the generation flow changes styleDescription, isAnalyzingStyle or
\* an error message produced by the style-analysis flow.
C14_FlowsIndependent ==
  [][/\ last'.op \in AnalysisFlowSteps
          => /\ isLoading' = isLoading
             /\ generatedImage' = generatedImage
             /\ error \in {Some(ValidationText), Some(GenerationFallbackText)}
                  => error' = error
     /\ last'.op \in GenerationFlowSteps
          => /\ styleDescription' = styleDescription
             /\ isAnalyzingStyle' = isAnalyzingStyle
             /\ error = Some(AnalysisFallbackText) => error' = error]_vars

\* C14 (amended): no step of the style-analysis flow changes isLoading or
\* generatedImage, and no step of the generation flow changes
\* styleDescription or isAnalyzingStyle (error is one field that both flows
\* write).
C14_FlowFlagsIndependent ==
  [][/\ last'.op \in AnalysisFlowSteps
          => /\ isLoading' = isLoading
             /\ generatedImage' = generatedImage
     /\ last'.op \in GenerationFlowSteps
          => /\ styleDescription' = styleDescription
             /\ isAnalyzingStyle' = isAnalyzingStyle]_vars

C14_Witness ==
  /\ last.op = "analysisRejected"
  /\ isLoading
  /\ generations # <<>>
  /\ error = Some(AnalysisFallbackText)

\* C15 (as stated): with a product image and a style image present, the
\* analyzing flag false and a description X stored (the empty string
\* included), the computed prompt ends with the 'described as: "X"' clause
\* and has neither the pending clause nor the generic clause.
C15_DescriptionQuoted ==
  (/\ last.op = "computePrompt"
   /\ productImage # Null
   /\ styleImage # Null
   /\ ~isAnalyzingStyle
   /\ styleDescription # Null)
  => /\ Contains(prompt, "described as: \"" \o styleDescription[1] \o "\"")
     /\ ~Contains(prompt, PendingClause)
     /\ ~Contains(prompt, FallbackClause)

\* C16: while a generation is in flight (isLoading) generatedImage is null.
C16_NoResultWhileLoading == isLoading => generatedImage = Null

C16_Witness ==
  /\ isLoading
  /\ generatedImage = Null
  /\ Len(generations) = 1
  /\ last.op = "generateStarted"
  /\ error = Null

\* C17 (as stated): when generateImage is called with a style image and a
\* prompt the user has not edited since it was computed, the prompt has no
\* "being analyzed" clause, and a style description quoted in it is the
\* result of the analysis of that style image.
C17_GeneratedWithOwnDescription ==
  [][(last'.op = "generateStarted" /\ styleImage # Null /\ ~edited)
     => /\ ~Contains(prompt, PendingClause)
        /\ Contains(prompt, "described as: \"")
             => /\ styleAnalysis.state = "described"
                /\ Contains(prompt, "described as: \"" \o styleAnalysis.description \o "\"")]_vars

\* the dependencies of the prompt effect
PromptDependencies ==
  <<options, productImage, styleImage, styleDescription, isAnalyzingStyle>>

\* C18: an edited prompt stays as it is over every step that changes none of
\* options, product image, style image, style description and analyzing flag;
\* a step that changes one of them replaces the prompt by the freshly built
\* one and discards the edit; a step of the generation flow never changes the
\* prompt.
C18_EditKeptUntilRecompute ==
  [][/\ (PromptDependencies' = PromptDependencies /\ last'.op # "editPrompt")
          => (prompt' = prompt /\ edited' = edited)
     /\ PromptDependencies' # PromptDependencies
          => /\ ~edited'
             /\ prompt' = IF productImage' = Null THEN ""
                          ELSE BasePrompt(options')
                               \o (IF styleImage' = Null THEN ""
                                   ELSE StyleClause(isAnalyzingStyle', styleDescription'))
     /\ last'.op \in GenerationFlowSteps => prompt' = prompt]_vars

C18_Witness ==
  /\ edited
  /\ prompt = "A watercolor painting of the product."
  /\ last.op = "analysisResolved"
  /\ styleImage # Null
  /\ productImage # Null

====
